---- MODULE Spec2Model ----
(***************************************************************************)
(* The Zkitter facade (src/src/services/index.ts): the handlers it         *)
(* registers with the pubsub gateway, its private insert(msg, proof) and   *)
(* the events it emits.  The sub-services it calls (posts, moderations,    *)
(* connections, profile, groups, pubsub, the db adapter) are not part of   *)
(* the source at hand; they are modelled from their contracts in spec.md   *)
(* (sections 4.1 to 4.4) and marked as such.                               *)
(***************************************************************************)
EXTENDS Naturals, Sequences, FiniteSets

(* ------------------------------------------------------------------ *)
(* Bounds                                                             *)
(* ------------------------------------------------------------------ *)

\* Handler invocations the gateway makes in one behaviour.
MaxDeliveries == 2

(* ------------------------------------------------------------------ *)
(* The (message, proof) pairs the gateway can deliver                 *)
(* ------------------------------------------------------------------ *)

\* MessageType, as imported at index.ts:9 and matched at index.ts:214-226.
MessageType == {"Post", "Moderation", "Connection", "Profile"}

\* The handler's argument when the gateway delivers no message.
NullMsg == "null"

\* The pairs: a name stands for one (message, proof) pair.
\*   post1   a signed post of a registered user
\*   post1f  the same message (same hash) under a forged signature
\*   mod1    a signed moderation of post1;  conn1, prof1 likewise signed
\*   unreg   signed by an address that is not a registered user
\*   anon1   an anonymous post, group proof against g1's first root, nullifier n1
\*   anon2   another anonymous post (other content) reusing nullifier n1
\*   badzk   an anonymous post whose zero-knowledge proof does not verify
\*   noroot  an anonymous post whose proof names a root no group produced
\*   other   a message whose type is none of MessageType
Pairs ==
  {"post1", "post1f", "mod1", "conn1", "prof1", "unreg",
   "anon1", "anon2", "badzk", "noroot", "other"}

Payloads == Pairs \cup {NullMsg}

\* message.hash: the content address; the proof is not part of it.
HashOf(x) ==
  CASE x = "post1"  -> "h1"
    [] x = "post1f" -> "h1"
    [] x = "mod1"   -> "h2"
    [] x = "conn1"  -> "h3"
    [] x = "prof1"  -> "h4"
    [] x = "unreg"  -> "h5"
    [] x = "anon1"  -> "h6"
    [] x = "anon2"  -> "h7"
    [] x = "badzk"  -> "h8"
    [] x = "noroot" -> "h9"
    [] OTHER        -> "h10"

Hashes == {HashOf(x) : x \in Pairs}

\* message.type
TypeOf(x) ==
  CASE x \in {"post1", "post1f", "anon1", "anon2", "badzk", "noroot"} -> "Post"
    [] x = "mod1"              -> "Moderation"
    [] x \in {"conn1", "unreg"} -> "Connection"
    [] x = "prof1"             -> "Profile"
    [] OTHER                   -> "Other"

\* message.creator: empty for an anonymous message.
CreatorOf(x) ==
  CASE x \in {"post1", "post1f", "mod1"} -> "alice"
    [] x \in {"conn1", "prof1", "other"} -> "bob"
    [] x = "unreg"                       -> "mallory"
    [] OTHER                             -> ""

\* message.reference: the hash of the parent message, empty if none.
ReferenceOf(x) ==
  CASE x \in {"mod1", "anon2"} -> "h1"
    [] OTHER                   -> ""

\* The proof's variant.
ProofKind(x) ==
  IF x \in {"anon1", "anon2", "badzk", "noroot"} THEN "group" ELSE "signature"

\* Signature variant: whether the signature verifies over message.hash.
SignatureOk(x) == x # "post1f"

\* Group variant: proof.root, (proof.nullifier, proof.externalNullifier), and
\* whether the zero-knowledge proof verifies against its public signals.
RootOf(x) == IF x = "noroot" THEN <<"gX", 0>> ELSE <<"g1", 1>>

NullifierOf(x) ==
  CASE x \in {"anon1", "anon2"} -> <<"n1", "e1">>
    [] x = "badzk"              -> <<"n2", "e1">>
    [] OTHER                    -> <<"n3", "e1">>

ZkOk(x) == x # "badzk"

\* The address registry (User): the registered addresses.
Users == {"alice", "bob"}

(* ------------------------------------------------------------------ *)
(* State                                                              *)
(* ------------------------------------------------------------------ *)

VARIABLES
  store,    \* the ContentStore: one record per partition
  events,   \* what the facade has emitted, in order
  calls,    \* the handler invocations, in the order the gateway made them
  groups,   \* the GroupRegistry: per group its members and every root it had
  syncResult,  \* what the last syncGroup call returned to its caller
  fetched,  \* what the external membership fetch of the last syncGroup did
  subs,     \* the live subscriptions registered with the gateway, per entry path
  via,      \* per handler invocation a subscription made: its path, and the
            \* subscriptions already cancelled when it was made
  published,  \* the pairs write has published on the transport
  svcEvents   \* what the sub-services have emitted, in order

vars ==
  <<store, events, calls, groups, syncResult, fetched, subs, via, published,
    svcEvents>>

\* The registry's part of the state, the gateway's, and the rest.
registryVars == <<groups, syncResult, fetched>>

gatewayVars == <<subs, via, published>>

(* ------------------------------------------------------------------ *)
(* GroupRegistry (services.groups), from spec.md 4.1                  *)
(* ------------------------------------------------------------------ *)

\* g1 is fed by an external membership source; g2 is a static list.
GroupIds == {"g1", "g2"}

\* The merkle root of a group with its first n members: the tree only grows,
\* so a group's root is determined by the group and its member count.
MerkleRoot(g, n) == <<g, n>>

\* The identity commitments g1's external source lists, oldest first: a fetch
\* returns a prefix of them, at least as long as the last one returned.
Source == <<"c1", "c2">>

\* The first n identity commitments, in the order they were appended.
FirstMembers(n) == SubSeq(Source, 1, n)

Range(s) == {s[i] : i \in DOMAIN s}

\* addGroup(adapter), called for every group at index.ts:80-82: the group with
\* its initial member and the root of that membership.
AddGroup(g) == [members |-> FirstMembers(1), roots |-> <<MerkleRoot(g, 1)>>]

\* The registry's reverse index root -> groupId over every root ever produced.
RegistryGroupByRoot(root) ==
  IF \E g \in GroupIds : root \in Range(groups[g].roots)
    THEN CHOOSE g \in GroupIds : root \in Range(groups[g].roots)
    ELSE "none"

\* getGroupByRoot answering from each group's current root alone.
MutGetGroupByRoot(rootHash) ==
  IF \E g \in GroupIds : groups[g].roots[Len(groups[g].roots)] = rootHash
    THEN CHOOSE g \in GroupIds : groups[g].roots[Len(groups[g].roots)] = rootHash
    ELSE "none"

\* Zkitter.getGroupByRoot: delegates to the registry.
getGroupByRoot(rootHash) == RegistryGroupByRoot(rootHash)

\* Zkitter.getGroupMembers: delegates to the registry.
getGroupMembers(groupId) == groups[groupId].members

(* ------------------------------------------------------------------ *)
(* ProofVerifier, from spec.md 4.2                                    *)
(* ------------------------------------------------------------------ *)

RejectReasons ==
  {"InvalidSignature", "UnknownAddress", "UnknownRoot", "InvalidProof",
   "NullifierReused"}

\* verify(message, proof) against the registry and a nullifier ledger, a set of
\* <<group, <<nullifier, externalNullifier>>>>.
Verify(x, ledger) ==
  IF ProofKind(x) = "signature"
    THEN IF ~SignatureOk(x) THEN "InvalidSignature"
         ELSE IF CreatorOf(x) \notin Users THEN "UnknownAddress"
         ELSE "Accept"
    ELSE IF getGroupByRoot(RootOf(x)) = "none" THEN "UnknownRoot"
         ELSE IF ~ZkOk(x) THEN "InvalidProof"
         ELSE IF <<getGroupByRoot(RootOf(x)), NullifierOf(x)>> \in ledger
           THEN "NullifierReused"
         ELSE "Accept"

(* ------------------------------------------------------------------ *)
(* ContentStore partitions, from spec.md 4.3                          *)
(* ------------------------------------------------------------------ *)

\* this.services.{posts, moderations, connections, profile}
Partitions == {"posts", "moderations", "connections", "profile"}

EmptyPartition == [log |-> <<>>, byCreator |-> {}, byReference |-> {}]

PartitionHashes(part) == {HashOf(part.log[i]) : i \in DOMAIN part.log}

\* A partition that puts without looking: an existing hash has its entry
\* replaced by the arriving pair.
MutPartitionInsert(part, x) ==
  IF HashOf(x) \in PartitionHashes(part)
    THEN [result |-> "Inserted",
          part |->
            [part EXCEPT
               !.log = [i \in DOMAIN part.log |->
                          IF HashOf(part.log[i]) = HashOf(x) THEN x
                          ELSE part.log[i]]]]
    ELSE [result |-> "Inserted",
          part |-> [part EXCEPT !.log = Append(part.log, x)]]

\* insert(message, proof) of one partition: check-and-set keyed by
\* message.hash; an existing hash means no mutation at all.
PartitionInsert(part, x) ==
  IF HashOf(x) \in PartitionHashes(part)
    THEN [result |-> "AlreadyExist", part |-> part]
    ELSE [result |-> "Inserted",
          part |->
            [log |-> Append(part.log, x),
             byCreator |->
               IF CreatorOf(x) = "" THEN part.byCreator
               ELSE part.byCreator \cup {<<CreatorOf(x), HashOf(x)>>},
             byReference |->
               IF ReferenceOf(x) = "" THEN part.byReference
               ELSE part.byReference \cup {<<ReferenceOf(x), HashOf(x)>>}]]

(* ------------------------------------------------------------------ *)
(* Zkitter.insert and the handlers (index.ts)                         *)
(* ------------------------------------------------------------------ *)

\* ZkitterEvents
NewMessageCreated == "Zkitter.NewMessageCreated"
AlreadyExist == "Level.AlreadyExist"
ArbitrumSynced == "Users.ArbitrumSynced"

ZkitterEvents == {ArbitrumSynced, AlreadyExist, NewMessageCreated}

\* The switch of insert: the service whose insert a message type reaches.
ServiceOf(type) ==
  CASE type = "Post"       -> "posts"
    [] type = "Moderation" -> "moderations"
    [] type = "Connection" -> "connections"
    [] type = "Profile"    -> "profile"

\* The switch run with every case falling through to the next one.
MutDispatchTargets(type) ==
  CASE type = "Post"       -> {"posts", "moderations", "connections", "profile"}
    [] type = "Moderation" -> {"moderations", "connections", "profile"}
    [] type = "Connection" -> {"connections", "profile"}
    [] type = "Profile"    -> {"profile"}
    [] OTHER               -> {}

\* The services whose insert one call of Zkitter.insert invokes: each case
\* ends in a break, and a type that matches no case invokes none.
DispatchTargets(type) ==
  IF type \in MessageType THEN {ServiceOf(type)} ELSE {}

\* What the awaited service insert settles with, as insert sees it: it returns
\* ("Inserted"), throws AlreadyExistError ("AlreadyExist", index.ts:4 and 232)
\* or throws any other error ("StorageFailure").
Outcomes == {"Inserted", "AlreadyExist", "StorageFailure"}

\* The emit of NewMessageCreated placed after the try block instead of inside
\* it: it then also runs when the catch block has handled an error.
MutInsertEmits(outcome) ==
  CASE outcome = "Inserted"     -> <<NewMessageCreated>>
    [] outcome = "AlreadyExist" -> <<AlreadyExist, NewMessageCreated>>
    [] OTHER                    -> <<NewMessageCreated>>

\* try { await service.insert(...); emit(NewMessageCreated) }
\* catch (e) { if (e === AlreadyExistError) emit(AlreadyExist) }
InsertEmits(outcome) ==
  CASE outcome = "Inserted"     -> <<NewMessageCreated>>
    [] outcome = "AlreadyExist" -> <<AlreadyExist>>
    [] OTHER                    -> <<>>

\* Whether insert raises to its caller: the catch block has no rethrow.
InsertRaises(outcome) == FALSE

\* The handler invocations that have not run to their end.
InFlight == {c \in DOMAIN calls : calls[c].pc # "done"}

\* A handler invocation that has run to its end without calling insert.  Of
\* each invocation the model keeps which earlier ones were still running when
\* it began (overlaps), the services whose insert it invoked (targets), what
\* the awaited service insert settled with (outcome), the events it emitted
\* and whether it raised to the gateway.
NoInsert(x) ==
  [pair |-> x, pc |-> "done", inserts |-> 0, targets |-> {},
   outcome |-> "none", emitted |-> <<>>, raised |-> FALSE,
   overlaps |-> InFlight]

\* insert(msg, proof) up to its await: the switch on msg.type has called the
\* matching service's insert, or matched no case and returned.
InsertStart(x) ==
  [pair |-> x,
   pc |-> IF DispatchTargets(TypeOf(x)) = {} THEN "done" ELSE "store",
   inserts |-> 1, targets |-> DispatchTargets(TypeOf(x)),
   outcome |-> "none", emitted |-> <<>>, raised |-> FALSE,
   overlaps |-> InFlight]

\* A handler that awaits nothing: the pair it is handed is dropped.
MutHandlerDrops(x) ==
  [pair |-> x, pc |-> "done", inserts |-> 0, targets |-> {},
   outcome |-> "none", emitted |-> <<>>, raised |-> FALSE,
   overlaps |-> InFlight]

\* A handler without the test on msg: insert is called on every delivery.
MutHandlerUnguarded(x) ==
  [pair |-> x,
   pc |-> IF DispatchTargets(TypeOf(x)) = {} THEN "done" ELSE "store",
   inserts |-> 1, targets |-> DispatchTargets(TypeOf(x)),
   outcome |-> "none", emitted |-> <<>>, raised |-> FALSE,
   overlaps |-> InFlight]

\* async (msg, proof) => { if (msg) { await this.insert(msg, proof); } }
Handler(x) == IF x = NullMsg THEN NoInsert(x) ELSE InsertStart(x)

\* A handler the facade registered is invoked with payload x.
Invoke(x) ==
  /\ Len(calls) < MaxDeliveries
  /\ calls' = Append(calls, Handler(x))
  /\ UNCHANGED <<store, events, registryVars, published, svcEvents>>

\* The gateway invokes a handler the facade registered, with payload x.
Deliver(x) == Invoke(x) /\ UNCHANGED <<subs, via>>

\* posts.getPost(hash) is non-null for some hash: thread(hash) returns an object.
SomePostStored == store["posts"].log # <<>>

QueryUser == \E x \in Payloads : Deliver(x)

QueryGroup == \E x \in Payloads : Deliver(x)

QueryAll == \E x \in Payloads : Deliver(x)

Subscribe == \E x \in Payloads : Deliver(x)

SubscribeUsers == \E x \in Payloads : Deliver(x)

SubscribeThreads == \E x \in Payloads : Deliver(x)

\* user(address).subscribe: getUser(address) was non-null.
UserSubscribe == Users # {} /\ \E x \in Payloads : Deliver(x)

\* thread(hash).subscribe: getPost(hash) was non-null.
ThreadSubscribe == SomePostStored /\ \E x \in Payloads : Deliver(x)

\* The awaited service insert completes: every service the switch reached
\* runs its check-and-set.
ServiceInsert(c) ==
  /\ calls[c].pc = "store"
  /\ store' =
       [p \in Partitions |->
          IF p \in calls[c].targets
            THEN PartitionInsert(store[p], calls[c].pair).part
            ELSE store[p]]
  /\ calls' =
       [calls EXCEPT
          ![c].pc = "settled",
          ![c].outcome =
            IF \E p \in calls[c].targets :
                 PartitionInsert(store[p], calls[c].pair).result = "AlreadyExist"
              THEN "AlreadyExist" ELSE "Inserted"]
  /\ UNCHANGED <<events, registryVars, gatewayVars, svcEvents>>

\* The awaited service insert fails in the persistence layer: nothing is stored.
ServiceFails(c) ==
  /\ calls[c].pc = "store"
  /\ calls' = [calls EXCEPT ![c].pc = "settled", ![c].outcome = "StorageFailure"]
  /\ UNCHANGED <<store, events, registryVars, gatewayVars, svcEvents>>

\* insert resumes after its await: the emit after the service insert, or the
\* catch block.
InsertResume(c) ==
  /\ calls[c].pc = "settled"
  /\ events' =
       events \o [i \in DOMAIN InsertEmits(calls[c].outcome) |->
                    [name |-> InsertEmits(calls[c].outcome)[i],
                     pair |-> calls[c].pair]]
  /\ calls' =
       [calls EXCEPT
          ![c].pc = "done",
          ![c].emitted = InsertEmits(calls[c].outcome),
          ![c].raised = InsertRaises(calls[c].outcome)]
  /\ UNCHANGED <<store, registryVars, gatewayVars, svcEvents>>

\* groups.sync for the externally fed group g1: the fetch returned the first n
\* members; the unseen ones are appended and each new root is recorded.
SyncAppend(g, n) ==
  [members |-> FirstMembers(n),
   roots |-> groups[g].roots \o
               [i \in 1..(n - Len(groups[g].members)) |->
                  MerkleRoot(g, Len(groups[g].members) + i)]]

\* syncGroup with a catch block like the one of insert: the rejection of
\* groups.sync is dropped.
MutSyncGroupRaises(failed) == FALSE

\* Whether syncGroup raises to its caller: it awaits groups.sync(groupId)
\* outside any try block, so a rejection of sync is its own.
SyncGroupRaises(failed) == failed

\* syncGroup(groupId?) when every fetch it makes succeeds; the static group g2
\* fetches nothing.
SyncGroupOk(target) ==
  /\ \E n \in Len(groups["g1"].members)..Len(Source) :
       groups' =
         IF target \in {"g1", "all"}
           THEN [groups EXCEPT !["g1"] = SyncAppend("g1", n)]
           ELSE groups
  /\ syncResult' = IF SyncGroupRaises(FALSE) THEN "GroupSyncFailure" ELSE "ok"
  /\ fetched' = IF target = "g2" THEN "none" ELSE "ok"
  /\ UNCHANGED <<store, events, calls, gatewayVars, svcEvents>>

\* syncGroup(groupId?) when the external fetch fails: groups.sync leaves the
\* registry as it was and rejects.
SyncGroupFails(target) ==
  /\ target \in {"g1", "all"}
  /\ syncResult' = IF SyncGroupRaises(TRUE) THEN "GroupSyncFailure" ELSE "ok"
  /\ fetched' = "failed"
  /\ UNCHANGED <<store, events, calls, groups, gatewayVars, svcEvents>>

SyncTargets == GroupIds \cup {"all"}

\* The facade's entry points that register a live feed with the gateway.
SubscriptionPaths ==
  {"subscribe", "subscribeUsers", "subscribeThreads", "user.subscribe",
   "thread.subscribe"}

Init ==
  /\ store = [p \in Partitions |-> EmptyPartition]
  /\ events = <<>>
  /\ calls = <<>>
  /\ groups = [g \in GroupIds |-> AddGroup(g)]
  /\ syncResult = "none"
  /\ fetched = "none"
  /\ subs = [p \in SubscriptionPaths |-> "idle"]
  /\ via = <<>>
  /\ published = {}
  /\ svcEvents = <<>>

\* The ingestion pipeline: the eight entry paths, the awaited service insert
\* and the continuation of insert.
Next ==
  \/ QueryUser
  \/ QueryGroup
  \/ QueryAll
  \/ Subscribe
  \/ SubscribeUsers
  \/ SubscribeThreads
  \/ UserSubscribe
  \/ ThreadSubscribe
  \/ \E c \in DOMAIN calls : ServiceInsert(c)
  \/ \E c \in DOMAIN calls : ServiceFails(c)
  \/ \E c \in DOMAIN calls : InsertResume(c)

Spec == Init /\ [][Next]_vars

\* The pairs that carry a group proof.
GroupPairs == {x \in Pairs : ProofKind(x) = "group"}

\* queryGroup(groupId) delivering what was posted on behalf of a group.
QueryGroupPosts == \E x \in GroupPairs : Deliver(x)

\* The registry under sync, together with the ingestion of group-proof pairs.
NextGroups ==
  \/ \E t \in SyncTargets : SyncGroupOk(t)
  \/ \E t \in SyncTargets : SyncGroupFails(t)
  \/ QueryGroupPosts
  \/ \E c \in DOMAIN calls : ServiceInsert(c)
  \/ \E c \in DOMAIN calls : ServiceFails(c)
  \/ \E c \in DOMAIN calls : InsertResume(c)

SpecGroups == Init /\ [][NextGroups]_vars

(* ------------------------------------------------------------------ *)
(* Vocabulary of the properties                                       *)
(* ------------------------------------------------------------------ *)

Done(c) == calls[c].pc = "done"

\* The entries of the ContentStore: <<partition, position in its log>>.
Entries == UNION {{<<p, i>> : i \in DOMAIN store[p].log} : p \in Partitions}

EntryPair(e) == store[e[1]].log[e[2]]

\* The nullifier ledger a verifier would hold when entry e arrived: the pairs
\* of the group proofs stored before it in its partition.
LedgerBefore(e) ==
  {<<getGroupByRoot(RootOf(store[e[1]].log[j])), NullifierOf(store[e[1]].log[j])>> :
     j \in {k \in 1..(e[2] - 1) : ProofKind(store[e[1]].log[k]) = "group"}}

\* Verification rejects the pair whatever the ledger holds.
Rejects(x) == Verify(x, {}) \in RejectReasons

\* Verification accepts the pair on a fresh ledger.
Accepts(x) == Verify(x, {}) = "Accept"

\* The events of the facade's stream with this name that carry this pair.
EventsOf(name, x) ==
  {k \in DOMAIN events : events[k].name = name /\ events[k].pair = x}

\* The handler invocations that ran insert to its end with this pair and outcome.
CallsOf(x, outcome) ==
  {c \in DOMAIN calls : Done(c) /\ calls[c].pair = x /\ calls[c].outcome = outcome}

(* ------------------------------------------------------------------ *)
(* C1                                                                 *)
(* ------------------------------------------------------------------ *)

\* C1: every message present in any partition of the ContentStore passed proof
\* verification before it was persisted: the verifier accepts each stored pair
\* against the registry and the ledger of the pairs stored before it.
C1_StoredOnlyVerified ==
  \A e \in Entries : Verify(EntryPair(e), LedgerBefore(e)) = "Accept"

(* ------------------------------------------------------------------ *)
(* C3                                                                 *)
(* ------------------------------------------------------------------ *)

\* C3: when verification rejects a message, insert returns without raising and
\* the ContentStore is left unchanged: no call on a rejected pair ends with the
\* service having stored it.
C3_RejectLeavesStore ==
  \A c \in DOMAIN calls :
    (Done(c) /\ calls[c].pair \in Pairs /\ Rejects(calls[c].pair))
      => (~calls[c].raised /\ calls[c].outcome # "Inserted")

(* ------------------------------------------------------------------ *)
(* C4                                                                 *)
(* ------------------------------------------------------------------ *)

\* C4: each insert call that ends in a rejection emits exactly one Rejected
\* event carrying its message: per rejected pair, as many Rejected events on
\* the stream as finished calls of insert with that pair.
C4_RejectedEventEmitted ==
  \A x \in Pairs :
    Rejects(x) =>
      Cardinality(EventsOf("Rejected", x)) =
        Cardinality({c \in DOMAIN calls : Done(c) /\ calls[c].pair = x})

(* ------------------------------------------------------------------ *)
(* C5                                                                 *)
(* ------------------------------------------------------------------ *)

\* C5: a storage failure raised by a store partition during insert is raised
\* to the direct caller of insert.
C5_StorageFailurePropagates ==
  \A c \in DOMAIN calls :
    (Done(c) /\ calls[c].outcome = "StorageFailure") => calls[c].raised

(* ------------------------------------------------------------------ *)
(* C9                                                                 *)
(* ------------------------------------------------------------------ *)

\* C9: per group at most one message per (nullifier, externalNullifier) pair
\* is ever accepted: no two stored messages of one group carry the same pair.
C9_NullifierUsedOnce ==
  \A e, f \in Entries :
    (/\ e # f
     /\ ProofKind(EntryPair(e)) = "group"
     /\ ProofKind(EntryPair(f)) = "group"
     /\ getGroupByRoot(RootOf(EntryPair(e))) = getGroupByRoot(RootOf(EntryPair(f))))
      => NullifierOf(EntryPair(e)) # NullifierOf(EntryPair(f))

(* ------------------------------------------------------------------ *)
(* C10                                                                *)
(* ------------------------------------------------------------------ *)

\* C10: a message whose group proof names a root that no group of the registry
\* ever produced is never stored, whatever syncs have run (a property of
\* SpecGroups, where the registry syncs).
C10_UnknownRootNeverStored ==
  \A e \in Entries :
    ProofKind(EntryPair(e)) = "group" => getGroupByRoot(RootOf(EntryPair(e))) # "none"

(* ------------------------------------------------------------------ *)
(* C2                                                                 *)
(* ------------------------------------------------------------------ *)

\* The calls of insert that have ended, on an accepted pair of a known type.
AcceptedTypedDone ==
  {c \in DOMAIN calls :
     /\ Done(c)
     /\ calls[c].pair \in Pairs
     /\ TypeOf(calls[c].pair) \in MessageType
     /\ Accepts(calls[c].pair)}

\* One call reaches the matching partition only: its service insert was the one
\* of message.type, and what it stored lies in that partition and no other.
OnlyMatchingPartition(c) ==
  /\ calls[c].targets = {ServiceOf(TypeOf(calls[c].pair))}
  /\ calls[c].outcome = "Inserted" =>
       \A p \in Partitions :
         (HashOf(calls[c].pair) \in PartitionHashes(store[p]))
           <=> (p = ServiceOf(TypeOf(calls[c].pair)))

\* C2 as stated: for every accepted message of type Post, Moderation,
\* Connection or Profile, one call of insert invokes the insert of exactly the
\* matching partition and then emits exactly one event: NewMessageCreated when
\* the partition stored it, AlreadyExist when it reported the hash as present.
C2_ExactlyOneEvent ==
  \A c \in AcceptedTypedDone :
    /\ OnlyMatchingPartition(c)
    /\ \/ calls[c].outcome = "Inserted" /\ calls[c].emitted = <<NewMessageCreated>>
       \/ calls[c].outcome = "AlreadyExist" /\ calls[c].emitted = <<AlreadyExist>>

\* C2 (amended): as C2, and a call whose partition insert fails with a storage
\* failure emits no event; on the stream, per pair, there are as many
\* NewMessageCreated events as calls that stored it and as many AlreadyExist
\* events as calls that found it present.
C2_OneEventUnlessStorageFails ==
  /\ \A c \in AcceptedTypedDone :
       /\ OnlyMatchingPartition(c)
       /\ \/ calls[c].outcome = "Inserted" /\ calls[c].emitted = <<NewMessageCreated>>
          \/ calls[c].outcome = "AlreadyExist" /\ calls[c].emitted = <<AlreadyExist>>
          \/ calls[c].outcome = "StorageFailure" /\ calls[c].emitted = <<>>
  /\ \A x \in Pairs :
       (TypeOf(x) \in MessageType /\ Accepts(x)) =>
         /\ Cardinality(EventsOf(NewMessageCreated, x)) =
              Cardinality(CallsOf(x, "Inserted"))
         /\ Cardinality(EventsOf(AlreadyExist, x)) =
              Cardinality(CallsOf(x, "AlreadyExist"))

\* C2 witness: two calls on accepted pairs have ended, one stored its message
\* and emitted NewMessageCreated, the other found the hash present and emitted
\* AlreadyExist.
C2_Witness ==
  \E c, d \in AcceptedTypedDone :
    /\ calls[c].outcome = "Inserted" /\ calls[c].emitted = <<NewMessageCreated>>
    /\ calls[d].outcome = "AlreadyExist" /\ calls[d].emitted = <<AlreadyExist>>

(* ------------------------------------------------------------------ *)
(* C8                                                                 *)
(* ------------------------------------------------------------------ *)

\* The entries of the ContentStore with content hash h.
EntriesOf(h) == {e \in Entries : HashOf(EntryPair(e)) = h}

\* C8: the ContentStore holds at most one entry per content hash, over all its
\* partitions, whatever was delivered and in what order.
C8_OneEntryPerHash ==
  \A h \in Hashes : Cardinality(EntriesOf(h)) <= 1

\* C8 witness: one content hash was delivered twice, both inserts have ended,
\* and the store holds it.
C8_Witness ==
  \E c, d \in DOMAIN calls :
    /\ c # d /\ Done(c) /\ Done(d)
    /\ calls[c].pair \in Pairs /\ calls[d].pair \in Pairs
    /\ HashOf(calls[c].pair) = HashOf(calls[d].pair)
    /\ EntriesOf(HashOf(calls[c].pair)) # {}

(* ------------------------------------------------------------------ *)
(* C6                                                                 *)
(* ------------------------------------------------------------------ *)

\* Calls c and d are the only two inserts of their content hash, both on the
\* same accepted pair of a known type, and both have ended.
SamePairTwice(c, d) ==
  /\ c < d /\ Done(c) /\ Done(d)
  /\ calls[c].pair = calls[d].pair
  /\ calls[c].pair \in Pairs
  /\ TypeOf(calls[c].pair) \in MessageType
  /\ Accepts(calls[c].pair)
  /\ \A k \in DOMAIN calls \ {c, d} :
       calls[k].pair \in Pairs => HashOf(calls[k].pair) # HashOf(calls[c].pair)

\* d began after c had ended.
InSequence(c, d) == SamePairTwice(c, d) /\ c \notin calls[d].overlaps

\* C6 as stated: inserting the same valid pair twice in sequence yields
\* Inserted (NewMessageCreated) the first time and AlreadyExist the second.
C6_InsertedThenAlreadyExists ==
  \A c, d \in DOMAIN calls :
    InSequence(c, d) =>
      /\ calls[c].outcome = "Inserted" /\ calls[c].emitted = <<NewMessageCreated>>
      /\ calls[d].outcome = "AlreadyExist" /\ calls[d].emitted = <<AlreadyExist>>

\* The outcomes of two inserts of one pair in sequence, storage failures
\* included: a failed call emits nothing, and the next call that does not fail
\* is the one that stores.
SequenceOutcomes ==
  \A c, d \in DOMAIN calls :
    InSequence(c, d) =>
      /\ calls[c].outcome \in {"Inserted", "StorageFailure"}
      /\ calls[c].outcome = "Inserted" =>
           /\ calls[c].emitted = <<NewMessageCreated>>
           /\ calls[d].outcome \in {"AlreadyExist", "StorageFailure"}
      /\ calls[c].outcome = "StorageFailure" =>
           /\ calls[c].emitted = <<>>
           /\ calls[d].outcome \in {"Inserted", "StorageFailure"}
      /\ calls[d].outcome = "Inserted" => calls[d].emitted = <<NewMessageCreated>>
      /\ calls[d].outcome = "AlreadyExist" => calls[d].emitted = <<AlreadyExist>>
      /\ calls[d].outcome = "StorageFailure" => calls[d].emitted = <<>>

\* A step of a call of insert whose content hash is already in its partition,
\* or whose service insert fails, leaves the whole ContentStore (logs and
\* secondary indices) as it was.
RedeliveryKeepsStore ==
  \A c \in DOMAIN calls :
    (/\ calls'[c] # calls[c]
     /\ \/ \E p \in calls[c].targets :
             HashOf(calls[c].pair) \in PartitionHashes(store[p])
        \/ calls'[c].outcome = "StorageFailure")
      => store' = store

\* C6 (amended): inserting the same valid pair twice in sequence yields
\* Inserted then AlreadyExist unless a service insert fails with a storage
\* failure (that call emits nothing and stores nothing); an insert of a hash
\* that is already stored leaves the ContentStore, secondary indices included,
\* identical.
C6_IdempotentUnlessStorageFails ==
  []SequenceOutcomes /\ [][RedeliveryKeepsStore]_vars

\* C6 witness: the same pair was inserted twice in sequence, the first call
\* stored it and emitted NewMessageCreated, the second emitted AlreadyExist.
C6_Witness ==
  \E c, d \in DOMAIN calls :
    /\ InSequence(c, d)
    /\ calls[c].outcome = "Inserted"
    /\ calls[d].outcome = "AlreadyExist"
    /\ calls[d].emitted = <<AlreadyExist>>

(* ------------------------------------------------------------------ *)
(* C7                                                                 *)
(* ------------------------------------------------------------------ *)

\* d began while c was still running.
Concurrent(c, d) == SamePairTwice(c, d) /\ c \in calls[d].overlaps

\* C7 as stated: two concurrent inserts of the identical pair end with exactly
\* one Inserted (one NewMessageCreated event) and exactly one AlreadyExist.
C7_OneInsertedOneAlreadyExists ==
  \A c, d \in DOMAIN calls :
    Concurrent(c, d) =>
      /\ {calls[c].outcome, calls[d].outcome} = {"Inserted", "AlreadyExist"}
      /\ Cardinality(EventsOf(NewMessageCreated, calls[c].pair)) = 1
      /\ Cardinality(EventsOf(AlreadyExist, calls[c].pair)) = 1

\* C7 (amended): two concurrent inserts of the identical pair never both end
\* Inserted and never emit two NewMessageCreated; when neither service insert
\* fails with a storage failure, they end with exactly one Inserted (one
\* NewMessageCreated event) and exactly one AlreadyExist (one such event).
C7_NeverTwoInserted ==
  \A c, d \in DOMAIN calls :
    Concurrent(c, d) =>
      /\ ~(calls[c].outcome = "Inserted" /\ calls[d].outcome = "Inserted")
      /\ Cardinality(EventsOf(NewMessageCreated, calls[c].pair)) <= 1
      /\ "StorageFailure" \notin {calls[c].outcome, calls[d].outcome} =>
           /\ {calls[c].outcome, calls[d].outcome} = {"Inserted", "AlreadyExist"}
           /\ Cardinality(EventsOf(NewMessageCreated, calls[c].pair)) = 1
           /\ Cardinality(EventsOf(AlreadyExist, calls[c].pair)) = 1

\* C7 witness: two inserts of one pair ran concurrently and the one delivered
\* later won the race: it stored the message, the earlier one found it present.
C7_Witness ==
  \E c, d \in DOMAIN calls :
    /\ Concurrent(c, d)
    /\ calls[c].outcome = "AlreadyExist"
    /\ calls[d].outcome = "Inserted"

(* ------------------------------------------------------------------ *)
(* The live feeds: registration, delivery and cancellation            *)
(* ------------------------------------------------------------------ *)

\* The callers of the subscribe methods; each holds one live feed at most.
Readers == {"reader1", "reader2"}

\* The pairs a live feed carries here: a post and a moderation of it.
FeedPairs == {"post1", "mod1"}

Cancelled == {q \in SubscriptionPaths : subs[q] = "cancelled"}

\* subscribe, subscribeUsers, subscribeThreads, user(address).subscribe and
\* thread(hash).subscribe: each registers its handler for one feed of the
\* gateway; the last two exist once getUser and getPost returned an object.
SubscribeTo(p) ==
  /\ subs[p] = "idle"
  /\ Cardinality({q \in SubscriptionPaths : subs[q] # "idle"}) < Cardinality(Readers)
  /\ p = "user.subscribe" => Users # {}
  /\ p = "thread.subscribe" => SomePostStored
  /\ subs' = [subs EXCEPT ![p] = "active"]
  /\ UNCHANGED <<store, events, calls, registryVars, via, published, svcEvents>>

\* A cancellation that closes the transport connection the feeds share.
MutUnsubscribe(p) ==
  /\ subs[p] = "active"
  /\ subs' = [q \in SubscriptionPaths |->
               IF subs[q] = "active" THEN "cancelled" ELSE subs[q]]
  /\ UNCHANGED <<store, events, calls, registryVars, via, published, svcEvents>>

\* The feed of path p is cancelled.
Unsubscribe(p) ==
  /\ subs[p] = "active"
  /\ subs' = [subs EXCEPT ![p] = "cancelled"]
  /\ UNCHANGED <<store, events, calls, registryVars, via, published, svcEvents>>

\* An item arrives on the feed of path p: the gateway invokes the handler
\* registered for it, as long as the feed is active.
FeedDeliver(p, x) ==
  /\ subs[p] = "active"
  /\ Invoke(x)
  /\ via' = Append(via, [path |-> p, cancelled |-> Cancelled])
  /\ UNCHANGED subs

NextSubs ==
  \/ \E p \in SubscriptionPaths : SubscribeTo(p)
  \/ \E p \in SubscriptionPaths : Unsubscribe(p)
  \/ \E p \in SubscriptionPaths : \E x \in FeedPairs : FeedDeliver(p, x)
  \/ \E c \in DOMAIN calls : ServiceInsert(c)
  \/ \E c \in DOMAIN calls : InsertResume(c)

SpecSubs == Init /\ [][NextSubs]_vars

(* ------------------------------------------------------------------ *)
(* write (index.ts:294-304)                                           *)
(* ------------------------------------------------------------------ *)

\* What write is asked to author here: a signed post and an anonymous one.
AuthoredPairs == {"post1", "anon1"}

\* pubsub.write(options): constructs the message and its proof and publishes
\* the pair on the transport.
PubsubWrite(x) == published' = published \cup {x}

\* A write that also hands what it authored to insert.
MutWrite(x) ==
  /\ PubsubWrite(x)
  /\ Len(calls) < MaxDeliveries
  /\ calls' = Append(calls, InsertStart(x))
  /\ UNCHANGED <<store, events, registryVars, subs, via, svcEvents>>

\* Zkitter.write(options): returns what pubsub.write returns, nothing else.
Write(x) ==
  /\ PubsubWrite(x)
  /\ UNCHANGED <<store, events, calls, registryVars, subs, via, svcEvents>>

\* The transport delivers a published pair back to this node, by a query or a
\* subscription.
DeliverBack == \E x \in published : Deliver(x)

NextWrite ==
  \/ \E x \in AuthoredPairs : Write(x)
  \/ DeliverBack
  \/ \E c \in DOMAIN calls : ServiceInsert(c)
  \/ \E c \in DOMAIN calls : ServiceFails(c)
  \/ \E c \in DOMAIN calls : InsertResume(c)

SpecWrite == Init /\ [][NextWrite]_vars

(* ------------------------------------------------------------------ *)
(* The sub-services' events (index.ts:109-113)                        *)
(* ------------------------------------------------------------------ *)

\* The number of events the sub-services emit in a run.
MaxServiceEvents == 2

\* Object.values(this.services)
Services ==
  {"users", "pubsub", "posts", "moderations", "connections", "profile",
   "groups"}

\* The event each sub-service emits here, and the values it carries.
EventNameOf(s) ==
  CASE s = "users"       -> ArbitrumSynced
    [] s = "groups"      -> "Group.GroupSynced"
    [] s = "pubsub"      -> "Pubsub.Event"
    [] s = "posts"       -> "Posts.Event"
    [] s = "moderations" -> "Moderations.Event"
    [] s = "connections" -> "Connections.Event"
    [] s = "profile"     -> "Profile.Event"

ServiceEventNames == {EventNameOf(s) : s \in Services}

ServiceEventValues == {"v1", "v2"}

\* A listener that passes the event name on and drops its value.
MutForward(event, value) == <<[name |-> event, pair |-> "undefined"]>>

\* service.onAny((event, value) => { this.emit(event, value); })
Forward(event, value) == <<[name |-> event, pair |-> value]>>

\* Sub-service s emits an event: its listeners run before emit returns, the
\* one the constructor registered among them.
ServiceEmits(s, event, value) ==
  /\ Len(svcEvents) < MaxServiceEvents
  /\ svcEvents' =
       Append(svcEvents, [service |-> s, name |-> event, value |-> value])
  /\ events' = events \o Forward(event, value)
  /\ UNCHANGED <<store, calls, registryVars, gatewayVars>>

NextEvents ==
  \/ \E s \in Services : \E v \in ServiceEventValues :
       ServiceEmits(s, EventNameOf(s), v)
  \/ Deliver("post1")
  \/ \E c \in DOMAIN calls : ServiceInsert(c)
  \/ \E c \in DOMAIN calls : InsertResume(c)

SpecEvents == Init /\ [][NextEvents]_vars

(* ------------------------------------------------------------------ *)
(* C11                                                                *)
(* ------------------------------------------------------------------ *)

\* Every root a group of the registry can come to have.
AllRoots == {MerkleRoot(g, n) : g \in GroupIds, n \in 1..Len(Source)}

\* The pairs carrying a group-membership proof.
GroupProofPairs == {x \in Pairs : ProofKind(x) = "group"}

\* C11: group roots are never forgotten: a root that resolves through
\* getGroupByRoot to a group keeps resolving to that group after every step,
\* member appends included, and a proof that verifies against it keeps
\* verifying.
C11_RootsNeverForgotten ==
  [][/\ \A r \in AllRoots :
          getGroupByRoot(r) # "none" => getGroupByRoot(r)' = getGroupByRoot(r)
     /\ \A g \in GroupIds : \A i \in DOMAIN groups[g].roots :
          /\ i \in DOMAIN groups'[g].roots
          /\ groups'[g].roots[i] = groups[g].roots[i]
     /\ \A x \in GroupProofPairs :
          Verify(x, {}) = "Accept" => Verify(x, {})' = "Accept"]_vars

\* C11 witness: a member append moved g1 from its first root to a second one,
\* the first root still resolves to g1 and the proof built against it
\* verifies.
C11_Witness ==
  /\ Len(groups["g1"].roots) = 2
  /\ groups["g1"].roots[2] # MerkleRoot("g1", 1)
  /\ getGroupByRoot(MerkleRoot("g1", 1)) = "g1"
  /\ RootOf("anon1") = MerkleRoot("g1", 1)
  /\ Verify("anon1", {}) = "Accept"

(* ------------------------------------------------------------------ *)
(* C12                                                                *)
(* ------------------------------------------------------------------ *)

\* C12: a sync whose external membership fetch fails leaves every group's
\* members, current root and earlier roots as they were, reports the failure
\* to the caller of syncGroup, and leaves no group without members.
C12_FailedSyncKeepsGroups ==
  /\ [](fetched = "failed" => syncResult = "GroupSyncFailure")
  /\ [](\A g \in GroupIds : groups[g].members # <<>>)
  /\ [][fetched' = "failed" => groups' = groups]_vars

\* C12 witness: the fetch failed in a sync that came after a successful append,
\* and g1 still has both members and both roots.
C12_Witness ==
  /\ fetched = "failed"
  /\ syncResult = "GroupSyncFailure"
  /\ Len(groups["g1"].members) = 2
  /\ Len(groups["g1"].roots) = 2

(* ------------------------------------------------------------------ *)
(* C14                                                                *)
(* ------------------------------------------------------------------ *)

\* The store changes in this step by the service insert of call c alone: c was
\* awaiting it, and a partition that changed is one c's switch reached and has
\* gained c's pair, nothing else.
StoredBy(c) ==
  /\ calls[c].inserts = 1
  /\ calls[c].pc = "store"
  /\ calls'[c].pc = "settled"
  /\ \A p \in Partitions :
       store'[p] # store[p] =>
         /\ p \in calls[c].targets
         /\ store'[p].log = Append(store[p].log, calls[c].pair)

\* C14: every pair with a non-null message handed to a handler the facade
\* registered (by any of the eight entry paths) leads to exactly one call of
\* insert with that very pair, and the store is written by no other route:
\* every entry was put by such a call, and every step that changes a
\* partition is the service insert of one.
C14_OneInsertPerDelivery ==
  /\ [](\A c \in DOMAIN calls :
          calls[c].pair # NullMsg =>
            /\ calls[c].inserts = 1
            /\ calls[c].targets = DispatchTargets(TypeOf(calls[c].pair)))
  /\ [](\A e \in Entries :
          \E c \in DOMAIN calls :
            /\ calls[c].pair = EntryPair(e)
            /\ calls[c].inserts = 1
            /\ calls[c].outcome = "Inserted")
  /\ [][store' # store => \E c \in DOMAIN calls : StoredBy(c)]_vars

\* C14 witness: two non-null pairs were delivered, each led to one insert,
\* and both are in the store.
C14_Witness ==
  /\ Len(calls) = 2
  /\ \A c \in DOMAIN calls :
       /\ calls[c].pair # NullMsg
       /\ calls[c].inserts = 1
       /\ calls[c].outcome = "Inserted"
  /\ Cardinality(Entries) = 2

(* ------------------------------------------------------------------ *)
(* C15                                                                *)
(* ------------------------------------------------------------------ *)

\* The message of a pair and its proof; post1 and post1f are one message
\* under two proofs.
MessageOf(x) ==
  [hash |-> HashOf(x), type |-> TypeOf(x), creator |-> CreatorOf(x),
   reference |-> ReferenceOf(x)]

ProofOf(x) == [kind |-> ProofKind(x), of |-> x]

\* What a lookup returns for a hash the store does not hold.
NoMessage == [hash |-> "", type |-> "", creator |-> "", reference |-> ""]

NoProof == [kind |-> "", of |-> NullMsg]

\* get(hash) of the ContentStore: the stored message, or null.
get(hash) ==
  IF EntriesOf(hash) = {} THEN NoMessage
  ELSE MessageOf(EntryPair(CHOOSE e \in EntriesOf(hash) : TRUE))

\* Zkitter.getProof(hash): the proof stored with the message, or null.
getProof(hash) ==
  IF EntriesOf(hash) = {} THEN NoProof
  ELSE ProofOf(EntryPair(CHOOSE e \in EntriesOf(hash) : TRUE))

C18_NullAndUnknownTypeIgnored ==
  \A c \in DOMAIN calls :
    /\ calls[c].pair = NullMsg =>
         /\ calls[c].inserts = 0
         /\ calls[c].targets = {}
         /\ calls[c].emitted = <<>>
         /\ Done(c) /\ ~calls[c].raised
    /\ (calls[c].pair # NullMsg /\ TypeOf(calls[c].pair) \notin MessageType) =>
         /\ calls[c].inserts = 1
         /\ calls[c].targets = {}
         /\ calls[c].outcome = "none"
         /\ calls[c].emitted = <<>>
         /\ Done(c) /\ ~calls[c].raised
         /\ \A k \in DOMAIN events : events[k].pair # calls[c].pair
         /\ EntriesOf(HashOf(calls[c].pair)) = {}

\* C18 witness: a null delivery and a message of an unknown type have both
\* been handled, and nothing was stored or emitted.
C18_Witness ==
  /\ \E c \in DOMAIN calls : calls[c].pair = NullMsg
  /\ \E c \in DOMAIN calls : calls[c].pair = "other" /\ Done(c)
  /\ Entries = {}
  /\ events = <<>>

(* ------------------------------------------------------------------ *)
(* C19                                                                *)
(* ------------------------------------------------------------------ *)

\* The NewMessageCreated events emitted for content hash h.
CreatedEventsOf(h) ==
  {k \in DOMAIN events :
     events[k].name = NewMessageCreated /\ HashOf(events[k].pair) = h}

\* C19: NewMessageCreated is emitted only after the matching partition's
\* insert succeeded: every message it was emitted for is in the matching
\* partition of the store, and it is emitted at most once per content hash.
C19_CreatedOnlyWhenStored ==
  /\ \A k \in DOMAIN events :
       events[k].name = NewMessageCreated =>
         \E i \in DOMAIN store[ServiceOf(TypeOf(events[k].pair))].log :
           store[ServiceOf(TypeOf(events[k].pair))].log[i] = events[k].pair
  /\ \A h \in Hashes : Cardinality(CreatedEventsOf(h)) <= 1

\* C19 witness: one content hash was delivered twice, is stored, and has its
\* one NewMessageCreated event.
C19_Witness ==
  \E c, d \in DOMAIN calls :
    /\ c # d /\ Done(c) /\ Done(d)
    /\ HashOf(calls[c].pair) = HashOf(calls[d].pair)
    /\ Cardinality(CreatedEventsOf(HashOf(calls[c].pair))) = 1
    /\ EntriesOf(HashOf(calls[c].pair)) # {}

(* ------------------------------------------------------------------ *)
(* C13                                                                *)
(* ------------------------------------------------------------------ *)

\* Path p is cancelled in this step.
CancelledNow(p) == subs[p] = "active" /\ subs'[p] = "cancelled"

\* C13: after a subscription is cancelled its handler is invoked for no further
\* item; the cancellation leaves the store, the running inserts and the events
\* as they are, and what was stored stays stored; and every other active
\* subscription stays active and keeps delivering.
C13_CancelStopsOneFeed ==
  /\ [](\A c \in DOMAIN via : via[c].path \notin via[c].cancelled)
  /\ [][Len(calls') > Len(calls) =>
          /\ Len(via') = Len(calls')
          /\ subs[via'[Len(via')].path] = "active"]_vars
  /\ [][\A p \in SubscriptionPaths :
          CancelledNow(p) =>
            /\ store' = store /\ calls' = calls /\ events' = events
            /\ \A q \in SubscriptionPaths \ {p} : subs'[q] = subs[q]]_vars
  /\ [][\A p \in Partitions : \A i \in DOMAIN store[p].log :
          i \in DOMAIN store'[p].log /\ store'[p].log[i] = store[p].log[i]]_vars

\* C13 witness: one feed delivered an item and was cancelled; the item is
\* still stored, and another feed, active throughout, has since delivered an
\* item that was inserted too.
C13_Witness ==
  \E c, d \in DOMAIN calls :
    /\ subs[via[c].path] = "cancelled"
    /\ via[c].cancelled = {}
    /\ via[d].cancelled = {via[c].path}
    /\ subs[via[d].path] = "active"
    /\ calls[c].outcome = "Inserted" /\ calls[d].outcome = "Inserted"
    /\ EntriesOf(HashOf(calls[c].pair)) # {}
    /\ EntriesOf(HashOf(calls[d].pair)) # {}

(* ------------------------------------------------------------------ *)
(* C16                                                                *)
(* ------------------------------------------------------------------ *)

\* C16: write only constructs and publishes: the step that publishes calls no
\* insert, writes to no partition and emits no event, and an authored message
\* is in this node's store only once it was delivered back and an insert of
\* it ended Inserted.
C16_WriteOnlyPublishes ==
  /\ [][published' # published =>
          store' = store /\ calls' = calls /\ events' = events]_vars
  /\ [](\A e \in Entries :
          /\ EntryPair(e) \in published
          /\ CallsOf(EntryPair(e), "Inserted") \cup
               {c \in DOMAIN calls :
                  /\ calls[c].pair = EntryPair(e)
                  /\ calls[c].pc = "settled"
                  /\ calls[c].outcome = "Inserted"} # {})
  /\ [](\A k \in DOMAIN events :
          events[k].name = NewMessageCreated =>
            \E c \in DOMAIN calls :
              calls[c].pair = events[k].pair /\ calls[c].emitted # <<>>)

\* C16 witness: two messages were authored; one has not come back and is not
\* in the store, the other was delivered back, inserted and announced.
C16_Witness ==
  \E x, y \in published :
    /\ EntriesOf(HashOf(x)) = {}
    /\ \A c \in DOMAIN calls : calls[c].pair # x
    /\ EntriesOf(HashOf(y)) # {}
    /\ EventsOf(NewMessageCreated, y) # {}

(* ------------------------------------------------------------------ *)
(* C17                                                                *)
(* ------------------------------------------------------------------ *)

FromService(e) == e.name \in ServiceEventNames

\* C17: every event a sub-service emits is re-emitted by the facade exactly
\* once, under the same name and with the same value, in the order of
\* emission: the facade's events that stem from sub-services are, one for
\* one and in order, the events the sub-services emitted.
C17_EventsForwardedOnce ==
  SelectSeq(events, FromService) =
    [i \in DOMAIN svcEvents |->
       [name |-> svcEvents[i].name, pair |-> svcEvents[i].value]]

\* C17 witness: two sub-services each emitted an event, around an event of
\* the facade's own, and both were re-emitted.
C17_Witness ==
  /\ Len(svcEvents) = 2
  /\ svcEvents[1].service # svcEvents[2].service
  /\ svcEvents[1].name # svcEvents[2].name
  /\ svcEvents[1].value # svcEvents[2].value
  /\ Len(events) = 3
  /\ events[2].name = NewMessageCreated

====
